---- MODULE Spec2Model ----
(***************************************************************************)
(* waco: contaminant-injection analysis for water networks.                *)
(*                                                                         *)
(*   waco/sim.py       contamination, water_demand                         *)
(*   waco/analyzer.py  detection_time, contaminated_volume                 *)
(*                                                                         *)
(* Tables (pandas DataFrames with the default RangeIndex) are sequences of *)
(* rows: the row label is the position in the sequence.  Time values are   *)
(* held in units of 1/Resolution second, so that a float argument such as  *)
(* non_detection_value = 0.5 is representable; the simulator's times are   *)
(* whole seconds.  A volume is a fraction num/den, den being PercentDen    *)
(* (the code's factor 0.01).                                               *)
(***************************************************************************)
EXTENDS Integers, Sequences, FiniteSets, TLC

\* ------------------------------------------------------------- bounds
NumTimes == 2            \* longest simulation horizon, in timesteps
MaxConc == 2             \* largest concentration (percentage) in a trace
MaxDemand == 2           \* largest demand of a node in a timestep
MaxInj == 2              \* longest inj_nodes list given to contamination
SimSteps == 1            \* report timesteps of a simulator run in contamination

\* ---------------------------------------------------- program constants
DefaultSensibility == 1  \* detection_time(sensibility=1)
PercentDen == 100        \* 0.01 * demand

\* ------------------------------------------------------- representation
Resolution == 2          \* float time values: units of 1/Resolution second

\* ------------------------------------------------------------ the network
junction_name_list == <<"J1", "J2">>
node_name_list == <<"J1", "J2", "R1">>

\* Observing nodes of the analysed tables, in sorted order (groupby sorts its keys).
NodeOrder == <<"J1", "J2">>
Nodes == {NodeOrder[k] : k \in 1..Len(NodeOrder)}

\* Injection columns of the analysed trace, in column order.
InjCols == <<"J2", "J1">>
InjSet == {InjCols[k] : k \in 1..Len(InjCols)}

\* Concentrations at and above the default threshold; the thresholds a caller
\* gives: the default, and one no concentration exceeds.
Concentrations == DefaultSensibility..MaxConc
Sensibilities == {DefaultSensibility, MaxConc}
Demands == 1..MaxDemand

\* A number that may be absent (Python None / NaN).
NoneVal == [nan |-> TRUE, v |-> 0]
Num(x) == [nan |-> FALSE, v |-> x]

\* non_detection_value arguments: None, or a float between -1 s and half a
\* second past the default sentinel of the longest horizon.
NdvArgs == {NoneVal} \cup {Num(x) : x \in (0 - Resolution)..(Resolution * NumTimes + 1)}

\* --------------------------------------------------------------- helpers
Max(S) == CHOOSE x \in S : \A y \in S : y <= x
Min(S) == CHOOSE x \in S : \A y \in S : x <= y

RECURSIVE SumOver(_, _)
SumOver(S, f) ==
    IF S = {} THEN 0
    ELSE LET x == CHOOSE y \in S : TRUE IN f[x] + SumOver(S \ {x}, f)

Reverse(s) == [k \in 1..Len(s) |-> s[Len(s) + 1 - k]]

\* Row orders of an input table: the simulator's (time-major) and its reverse.
RowOrders == {"sim", "reversed"}
Ordered(rows, o) == IF o = "sim" THEN rows ELSE Reverse(rows)

\* The (time, node) grid of a T-step simulation in the order stack().reset_index()
\* yields: times ascending, within a time the nodes in network order.
GridTime(k) == ((k - 1) \div Len(NodeOrder)) * Resolution
GridNode(k) == NodeOrder[((k - 1) % Len(NodeOrder)) + 1]
GridLen(T) == T * Len(NodeOrder)

TraceTables(T) ==
    UNION { { Ordered([k \in 1..GridLen(T) |-> [time |-> GridTime(k), node |-> GridNode(k), c |-> f[k]]], o)
              : f \in [1..GridLen(T) -> [InjSet -> Concentrations]] }
            : o \in RowOrders }

DemandTables(T) ==
    UNION { { Ordered([k \in 1..GridLen(T) |-> [time |-> GridTime(k), node |-> GridNode(k), demand |-> f[k]]], o)
              : f \in [1..GridLen(T) -> Demands] }
            : o \in RowOrders }

VARIABLES pc, trace, demand, sensibility, non_detection_value, det_time, idxs, volume,
          sim_pc, inj_arg, inj_nodes, trace_node, loop_i, sim_runs, trace_list, sim_table

analysis_vars == <<pc, trace, demand, sensibility, non_detection_value, det_time, idxs, volume>>
sim_vars == <<sim_pc, inj_arg, inj_nodes, trace_node, loop_i, sim_runs, trace_list, sim_table>>
vars == <<analysis_vars, sim_vars>>

\* ------------------------------------------------- analyzer.detection_time

TimesOf(tr) == {tr[k].time : k \in 1..Len(tr)}

\* Variant: the last time itself, without the step added.
default_non_detection_value_as(tr) == Max(TimesOf(tr))

\* times = sorted(trace["time"].unique()); times[-1] + (times[-1] - times[-2])
default_non_detection_value(tr) ==
    LET last == Max(TimesOf(tr))
        prev == Max(TimesOf(tr) \ {last})
    IN  last + (last - prev)

\* times[-2] raises IndexError when the trace has fewer than two distinct times.
default_raises(tr) == Cardinality(TimesOf(tr)) < 2

\* series[series > sensibility]: the labels of the group's rows above the threshold.
filtered_series(tr, node, col, sens) ==
    {k \in 1..Len(tr) : tr[k].node = node /\ tr[k].c[col] > sens}

\* trace.loc[filtered_series.index[0], "time"] if not filtered_series.empty else None
first_T_greater_than(tr, node, col, sens) ==
    LET fs == filtered_series(tr, node, col, sens)
    IN  IF fs # {} THEN Num(tr[Min(fs)].time) ELSE NoneVal

\* groupby("node"): the distinct nodes of the trace, sorted.
group_keys(tr) == SelectSeq(NodeOrder, LAMBDA n : \E k \in 1..Len(tr) : tr[k].node = n)

\* trace.groupby("node").agg({col: first_T_greater_than ...}): node -> col -> cell
agg(tr, sens) ==
    [n \in Nodes |-> [col \in InjSet |-> first_T_greater_than(tr, n, col, sens)]]

\* Variant: the missing cells are left missing.
fillna_as(frame, value) == frame

\* DataFrame.fillna(value)
fillna(frame, value) ==
    [n \in DOMAIN frame |-> [col \in DOMAIN frame[n] |->
        IF frame[n][col].nan THEN Num(value) ELSE frame[n][col]]]

\* DataFrame.stack().reset_index(): one row per non-NaN cell, the index keys in
\* order and within a key the columns in column order; columns node, inj_node, time.
RECURSIVE stack_rows(_, _, _, _)
stack_rows(frame, keys, i, j) ==
    IF i > Len(keys) THEN << >>
    ELSE IF j > Len(InjCols) THEN stack_rows(frame, keys, i + 1, 1)
    ELSE LET cell == frame[keys[i]][InjCols[j]]
             rest == stack_rows(frame, keys, i, j + 1)
         IN  IF cell.nan THEN rest
             ELSE <<[node |-> keys[i], inj_node |-> InjCols[j], time |-> cell.v]>> \o rest

stack(frame, keys) == stack_rows(frame, keys, 1, 1)

\* the value line 33-35 leaves in non_detection_value
effective_non_detection_value(tr, ndv) ==
    IF ndv.nan THEN default_non_detection_value(tr) ELSE ndv.v

detection_time(tr, sens, ndv) ==
    stack(fillna(agg(tr, sens), effective_non_detection_value(tr, ndv)), group_keys(tr))

\* --------------------------------------------- analyzer.contaminated_volume

\* Variant: rounding down (floor) instead of toward zero.
astype_int_as(t) ==
    IF t >= 0 THEN (t \div Resolution) * Resolution
    ELSE 0 - ((((0 - t) + Resolution - 1) \div Resolution) * Resolution)

\* Series.astype(int) of one value: truncation toward zero.
astype_int(t) ==
    IF t >= 0 THEN (t \div Resolution) * Resolution
    ELSE 0 - (((0 - t) \div Resolution) * Resolution)

\* det_time["time"] = det_time["time"].astype(int): the caller's table, in place.
det_time_astype(det) == [k \in 1..Len(det) |-> [det[k] EXCEPT !.time = astype_int(@)]]

max_sim_time(tr) == Max(TimesOf(tr))

\* trace[scenario_names].mul(0.01 * demand["demand"], axis=0), as a numerator over
\* PercentDen: aligned on the row label; a label missing from demand gives NaN,
\* which the later sum skips.
mul_row(tr, dem, k, col) == IF k \in 1..Len(dem) THEN tr[k].c[col] * dem[k].demand ELSE 0

\* contam_vol.groupby(["time"]).sum().stack(): (time, scenario) -> volume, the
\* factor 0.01 kept as the denominator.
contam_vol(tr, dem, t, col) ==
    LET rows == {k \in 1..Len(tr) : tr[k].time = t}
    IN  [num |-> SumOver(rows, [k \in rows |-> mul_row(tr, dem, k, col)]), den |-> PercentDen]

contam_vol_keys(tr) == TimesOf(tr) \X InjSet

\* idxs = det_time[["time", "inj_node"]].to_numpy();
\* idxs[np.where(idxs[:, 0] > max_sim_time), 0] = max_sim_time
\* Variant: no clamping.
clamp_as(t, mx) == t

clamp(t, mx) == IF t > mx THEN mx ELSE t

lookup_keys(det, mx) ==
    [k \in 1..Len(det) |-> [time |-> clamp(det[k].time, mx), inj_node |-> det[k].inj_node]]

\* Variant: the clamped times are written back to the caller's table.
det_time_after_as(det, tr) ==
    [k \in 1..Len(det) |-> [det[k] EXCEPT !.time = clamp(astype_int(@), max_sim_time(tr))]]

\* The caller's det_time when contaminated_volume is over: line 88 assigns its time
\* column; idxs (to_numpy of a mixed-type selection) is a copy, so line 98 does not
\* reach it.
det_time_after(det, tr) == det_time_astype(det)

\* contam_vol[pd.MultiIndex.from_tuples(idxs.tolist())] raises KeyError on a missing key
lookup_raises(tr, keys) ==
    \E k \in 1..Len(keys) : <<keys[k].time, keys[k].inj_node>> \notin contam_vol_keys(tr)

\* Variant: the node and inj_node columns exchanged.
volume_frame_as(tr, dem, det, keys) ==
    [k \in 1..Len(keys) |->
        [node |-> det[k].inj_node, inj_node |-> det[k].node,
         volume |-> contam_vol(tr, dem, keys[k].time, keys[k].inj_node)]]

\* pd.DataFrame({"node": ..., "inj_node": ..., "volume": contam_vol.tolist()})
volume_frame(tr, dem, det, keys) ==
    [k \in 1..Len(keys) |->
        [node |-> det[k].node, inj_node |-> det[k].inj_node,
         volume |-> contam_vol(tr, dem, keys[k].time, keys[k].inj_node)]]

\* ------------------------------------------------------- sim.contamination

\* inj_nodes arguments: None, or a list of distinct junction names in any order.
RECURSIVE ListsUpTo(_, _)
ListsUpTo(S, n) ==
    IF n = 0 THEN {<< >>}
    ELSE LET shorter == ListsUpTo(S, n - 1)
         IN  shorter \cup {Append(l, x) : <<l, x>> \in
                              {q \in shorter \X S : Len(q[1]) = n - 1
                                                    /\ \A k \in 1..Len(q[1]) : q[1][k] # q[2]}}

NoList == [none |-> TRUE, list |-> << >>]
InjArgs ==
    {NoList} \cup {[none |-> FALSE, list |-> l] :
                      l \in ListsUpTo({junction_name_list[k] : k \in 1..Len(junction_name_list)}, MaxInj)}

\* sim_results.node["quality"]: a (time x node) frame, every node of the network a
\* column, every report timestep a row; TRACE percentages.
SimPercent == {0, 100}
SimGridLen == SimSteps * Len(node_name_list)
SimGridTime(k) == ((k - 1) \div Len(node_name_list)) * Resolution
SimGridNode(k) == node_name_list[((k - 1) % Len(node_name_list)) + 1]
QualityFrames == [1..SimGridLen -> SimPercent]

\* curr_trace.stack(): the frame as one series indexed by (time, node), time-major.
stack_series(q) == [k \in 1..SimGridLen |-> [time |-> SimGridTime(k), node |-> SimGridNode(k), value |-> q[k]]]

\* Variant: every node of the network, not only the junctions.
default_inj_nodes_as(arg) == IF arg.none THEN node_name_list ELSE arg.list

\* inj_nodes = wn.junction_name_list if inj_nodes is None else inj_nodes
default_inj_nodes(arg) == IF arg.none THEN junction_name_list ELSE arg.list

\* pd.DataFrame(trace).T.reset_index(); trace.columns = ["time", "node"] + inj_nodes
\* One row per (time, node) of the series' index, the k-th series the k-th data column.
trace_frame(series, names) ==
    [columns |-> <<"time", "node">> \o names,
     rows |-> [r \in 1..SimGridLen |->
                 [time |-> series[1][r].time, node |-> series[1][r].node,
                  vals |-> [k \in 1..Len(series) |-> series[k][r].value]]]]

NoTable == [columns |-> << >>, rows |-> << >>]

\* The columns assignment raises ValueError for an empty list: the frame built from
\* no series has the single column "index".
columns_raise(series) == Len(series) = 0

SimIdle ==
    /\ sim_pc = "idle"
    /\ inj_arg = NoList
    /\ inj_nodes = << >>
    /\ trace_node = "unset"
    /\ loop_i = 0
    /\ sim_runs = << >>
    /\ trace_list = << >>
    /\ sim_table = NoTable

AnalysisIdle ==
    /\ pc = "idle"
    /\ trace = << >>
    /\ demand = << >>
    /\ sensibility = DefaultSensibility
    /\ non_detection_value = NoneVal
    /\ det_time = << >>
    /\ idxs = << >>
    /\ volume = << >>

SimInit ==
    /\ AnalysisIdle
    /\ sim_pc = "call"
    /\ inj_arg \in InjArgs
    /\ inj_nodes = << >>
    /\ trace_node = "unset"
    /\ loop_i = 0
    /\ sim_runs = << >>
    /\ trace_list = << >>
    /\ sim_table = NoTable

\* lines 47-52: configure the copy, default the injection nodes, trace = []
Configure ==
    /\ sim_pc = "call"
    /\ inj_nodes' = default_inj_nodes(inj_arg)
    /\ trace_list' = << >>
    /\ loop_i' = 1
    /\ sim_pc' = "loop"
    /\ UNCHANGED <<inj_arg, trace_node, sim_runs, sim_table, analysis_vars>>

\* line 54: wn.options.quality.trace_node = node
SetTraceNode ==
    /\ sim_pc = "loop"
    /\ loop_i <= Len(inj_nodes)
    /\ trace_node' = inj_nodes[loop_i]
    /\ sim_pc' = "run"
    /\ UNCHANGED <<inj_arg, inj_nodes, loop_i, sim_runs, trace_list, sim_table, analysis_vars>>

\* lines 55-58: one run of the external simulator, which reads the network's trace
\* node; its quality frame is stacked and appended.
RunSim(q) ==
    /\ sim_pc = "run"
    /\ sim_runs' = Append(sim_runs, [trace_node |-> trace_node, quality |-> q])
    /\ trace_list' = Append(trace_list, stack_series(q))
    /\ loop_i' = loop_i + 1
    /\ sim_pc' = "loop"
    /\ UNCHANGED <<inj_arg, inj_nodes, trace_node, sim_table, analysis_vars>>

\* lines 59-62: the table is built and returned
BuildTable ==
    /\ sim_pc = "loop"
    /\ loop_i > Len(inj_nodes)
    /\ ~columns_raise(trace_list)
    /\ sim_table' = trace_frame(trace_list, inj_nodes)
    /\ sim_pc' = "returned"
    /\ UNCHANGED <<inj_arg, inj_nodes, trace_node, loop_i, sim_runs, trace_list, analysis_vars>>

\* line 60 raises ValueError
BuildTableError ==
    /\ sim_pc = "loop"
    /\ loop_i > Len(inj_nodes)
    /\ columns_raise(trace_list)
    /\ sim_pc' = "value_error"
    /\ UNCHANGED <<inj_arg, inj_nodes, trace_node, loop_i, sim_runs, trace_list, sim_table, analysis_vars>>

SimNext ==
    \/ Configure
    \/ SetTraceNode
    \/ \E q \in QualityFrames : RunSim(q)
    \/ BuildTable
    \/ BuildTableError

SpecSim == SimInit /\ [][SimNext]_vars

\* ------------------------------------------------------------ the analysis

Init ==
    /\ SimIdle
    /\ pc = "start"
    /\ \E T \in 1..NumTimes :
        /\ trace \in TraceTables(T)
        /\ demand \in DemandTables(T)
    /\ sensibility = DefaultSensibility
    /\ non_detection_value = NoneVal
    /\ det_time = << >>
    /\ idxs = << >>
    /\ volume = << >>

\* detection_time(trace, sensibility, non_detection_value) returns
DetectionTime(sens, ndv) ==
    /\ pc = "start"
    /\ ~(ndv.nan /\ default_raises(trace))
    /\ sensibility' = sens
    /\ non_detection_value' = ndv
    /\ det_time' = detection_time(trace, sens, ndv)
    /\ pc' = "detected"
    /\ UNCHANGED <<trace, demand, idxs, volume, sim_vars>>

\* detection_time raises IndexError at times[-2]
DetectionTimeError(sens, ndv) ==
    /\ pc = "start"
    /\ ndv.nan /\ default_raises(trace)
    /\ sensibility' = sens
    /\ non_detection_value' = ndv
    /\ pc' = "index_error"
    /\ UNCHANGED <<trace, demand, det_time, idxs, volume, sim_vars>>

\* contaminated_volume(trace, demand, det_time) returns
ContaminatedVolume ==
    /\ pc = "detected"
    /\ LET det == det_time_astype(det_time)
           keys == lookup_keys(det, max_sim_time(trace))
       IN  /\ ~lookup_raises(trace, keys)
           /\ det_time' = det_time_after(det_time, trace)
           /\ idxs' = keys
           /\ volume' = volume_frame(trace, demand, det, keys)
    /\ pc' = "done"
    /\ UNCHANGED <<trace, demand, sensibility, non_detection_value, sim_vars>>

\* contaminated_volume raises KeyError at the lookup, after line 88 has run
ContaminatedVolumeError ==
    /\ pc = "detected"
    /\ LET det == det_time_astype(det_time)
           keys == lookup_keys(det, max_sim_time(trace))
       IN  /\ lookup_raises(trace, keys)
           /\ det_time' = det_time_after(det_time, trace)
           /\ idxs' = keys
    /\ pc' = "key_error"
    /\ UNCHANGED <<trace, demand, sensibility, non_detection_value, volume, sim_vars>>

Next ==
    \/ \E sens \in Sensibilities, ndv \in NdvArgs : DetectionTime(sens, ndv)
    \/ \E sens \in Sensibilities, ndv \in NdvArgs : DetectionTimeError(sens, ndv)
    \/ ContaminatedVolume
    \/ ContaminatedVolumeError

Spec == Init /\ [][Next]_vars

\* ================================================================ claims

\* The whole number of seconds of a time value, toward zero.
WholeTimes == {x * Resolution : x \in (0 - (NumTimes + 2))..(NumTimes + 2)}
IntPart(t) ==
    CHOOSE n \in WholeTimes :
        IF t >= 0 THEN n <= t /\ t < n + Resolution ELSE t <= n /\ n < t + Resolution

TraceTimes == {trace[j].time : j \in 1..Len(trace)}
TraceNodes == {trace[j].node : j \in 1..Len(trace)}
LastTime == CHOOSE t \in TraceTimes : \A u \in TraceTimes : u <= t
StepBeforeLast == CHOOSE t \in TraceTimes \ {LastTime} : \A u \in TraceTimes \ {LastTime} : u <= t

\* The rows of trace where node observes, for injection inj, more than sensibility.
Exceeding(n, inj) ==
    {j \in 1..Len(trace) : trace[j].node = n /\ trace[j].c[inj] > sensibility}

SomePairUndetected == \E n \in TraceNodes, inj \in InjSet : Exceeding(n, inj) = {}
SomePairDetected == \E n \in TraceNodes, inj \in InjSet : Exceeding(n, inj) # {}

\* Both tables hold each (time, node) of the grid exactly once.
SameRowSet ==
    {<<trace[j].time, trace[j].node>> : j \in 1..Len(trace)}
        = {<<demand[j].time, demand[j].node>> : j \in 1..Len(demand)}

\* The k-th rows of trace and demand are about the same (time, node).
SameRowOrder ==
    /\ Len(trace) = Len(demand)
    /\ \A j \in 1..Len(trace) : trace[j].time = demand[j].time /\ trace[j].node = demand[j].node

\* The rows of trace are in non-decreasing time order.
TimeOrdered == \A i, j \in 1..Len(trace) : i < j => trace[i].time <= trace[j].time

DemandAt(t, n) ==
    demand[CHOOSE j \in 1..Len(demand) : demand[j].time = t /\ demand[j].node = n].demand

\* x hundredths: 0.01 * x.
Hundredths(x) == [num |-> x, den |-> 100]

\* Concentration x demand of scenario inj summed over the nodes at time t, each
\* concentration multiplied by the demand of the same time and node.
JoinedProduct(t, inj) ==
    LET rows == {j \in 1..Len(trace) : trace[j].time = t}
    IN  SumOver(rows, [j \in rows |-> trace[j].c[inj] * DemandAt(t, trace[j].node)])

JoinedVolume(t, inj) == Hundredths(JoinedProduct(t, inj))

\* The same, accumulated over the timesteps up to t.
AccumulatedVolume(t, inj) ==
    LET upto == {u \in TraceTimes : u <= t}
    IN  Hundredths(SumOver(upto, [u \in upto |-> JoinedProduct(u, inj)]))

\* Volume of scenario inj at time t, each concentration multiplied by the demand of
\* the row with the same label.
LabelVolume(t, inj) ==
    LET rows == {j \in 1..Len(trace) : trace[j].time = t}
    IN  Hundredths(SumOver(rows, [j \in rows |-> trace[j].c[inj] * demand[j].demand]))

\* C1: for every pair (node, inj_node) with a row above sensibility, the time
\* detection_time returns is the earliest time among those rows (a concentration
\* equal to sensibility is no detection).  Fails on a trace whose rows are not in
\* time order: the code takes the first such row in table order.
C1_EarliestExceedance ==
    pc = "detected" =>
        \A k \in 1..Len(det_time) :
            LET ex == Exceeding(det_time[k].node, det_time[k].inj_node)
            IN  ex # {} =>
                    /\ \E j \in ex : det_time[k].time = trace[j].time
                    /\ \A j \in ex : det_time[k].time <= trace[j].time

\* C2: for a detected pair, trace in time order and the two tables row-aligned,
\* the volume of the pair is the contaminated volume accumulated over every
\* timestep up to the pair's detection time.  Fails: the code returns the volume of
\* the one looked-up timestep.
C2_AccumulatedUpToDetection ==
    (pc = "done" /\ SameRowOrder /\ TimeOrdered) =>
        \A k \in 1..Len(volume) :
            Exceeding(det_time[k].node, det_time[k].inj_node) # {} =>
                volume[k].volume = AccumulatedVolume(det_time[k].time, det_time[k].inj_node)

\* The time a never-detected pair is to get.
ExpectedNonDetectionValue ==
    IF non_detection_value.nan THEN LastTime + (LastTime - StepBeforeLast)
    ELSE non_detection_value.v

\* C3: a pair whose concentration never exceeds sensibility gets the time
\* non_detection_value: the caller's value unchanged (0 included) or, when none is
\* given, last time + (last time - second-to-last time).
C3_NonDetectionValue ==
    pc = "detected" =>
        \A n \in TraceNodes, inj \in InjSet :
            Exceeding(n, inj) = {} =>
                /\ \E k \in 1..Len(det_time) :
                        det_time[k].node = n /\ det_time[k].inj_node = inj
                /\ \A k \in 1..Len(det_time) :
                        (det_time[k].node = n /\ det_time[k].inj_node = inj)
                            => det_time[k].time = ExpectedNonDetectionValue

C3_Witness ==
    /\ pc = "detected"
    /\ non_detection_value = Num(0)
    /\ Cardinality(TraceTimes) >= 2
    /\ SomePairUndetected
    /\ \E k \in 1..Len(det_time) : det_time[k].time > 0

\* C4: with trace and demand holding the same set of (time, node) rows, each
\* looked-up volume is the sum over the nodes of concentration x demand of the
\* same time and the same node.  Fails when the rows are in different orders: the
\* code multiplies row by row.
C4_AlignedByTimeAndNode ==
    (pc = "done" /\ SameRowSet) =>
        \A k \in 1..Len(volume) :
            volume[k].volume = JoinedVolume(idxs[k].time, volume[k].inj_node)

\* C5: contaminated_volume returns one row per row of det_time, in the same order,
\* with that row's node and inj_node and the volume looked up for its (detection
\* time, inj_node).
C5_OneRowPerDetRow ==
    pc = "done" =>
        /\ Len(volume) = Len(det_time)
        /\ \A k \in 1..Len(det_time) :
            /\ volume[k].node = det_time[k].node
            /\ volume[k].inj_node = det_time[k].inj_node
            /\ volume[k].volume =
                 LabelVolume(IF det_time[k].time > LastTime THEN LastTime ELSE det_time[k].time,
                             det_time[k].inj_node)

C5_Witness ==
    /\ pc = "done"
    /\ Len(volume) = Len(NodeOrder) * Len(InjCols)
    /\ \E j, k \in 1..Len(volume) :
        /\ volume[j].node # volume[j].inj_node
        /\ det_time[j].time # det_time[k].time
        /\ volume[j].volume # volume[k].volume

\* The injection nodes the caller asked for.
RequestedInjNodes == IF inj_arg.none THEN junction_name_list ELSE inj_arg.list

\* C6: contamination runs the simulator once per injection node, in the order of
\* inj_nodes, with the trace node set to that node before the run; the returned
\* table has the columns time, node and one per injection node in that order, the
\* k-th holding the k-th run's result; None stands for every junction.
C6_OneRunPerInjectionNode ==
    /\ Len(sim_runs) <= Len(RequestedInjNodes)
    /\ \A k \in 1..Len(sim_runs) : sim_runs[k].trace_node = RequestedInjNodes[k]
    /\ sim_pc \in {"returned", "value_error"} => Len(sim_runs) = Len(RequestedInjNodes)
    /\ sim_pc = "returned" =>
        /\ sim_table.columns = <<"time", "node">> \o RequestedInjNodes
        /\ Len(sim_table.rows) = SimGridLen
        /\ \A r \in 1..Len(sim_table.rows) :
            /\ sim_table.rows[r].time = SimGridTime(r)
            /\ sim_table.rows[r].node = SimGridNode(r)
            /\ Len(sim_table.rows[r].vals) = Len(RequestedInjNodes)
            /\ \A k \in 1..Len(RequestedInjNodes) :
                    sim_table.rows[r].vals[k] = sim_runs[k].quality[r]

C6_Witness ==
    /\ sim_pc = "returned"
    /\ inj_arg = [none |-> FALSE, list |-> <<"J2", "J1">>]
    /\ sim_runs[1].quality # sim_runs[2].quality

\* C7: detection_time returns exactly one row for each pair (node, inj_node), node
\* over the distinct nodes of trace and inj_node over its injection columns.
C7_OneRowPerPair ==
    pc = "detected" =>
        /\ \A n \in TraceNodes, inj \in InjSet :
                Cardinality({k \in 1..Len(det_time) :
                                det_time[k].node = n /\ det_time[k].inj_node = inj}) = 1
        /\ \A k \in 1..Len(det_time) :
                det_time[k].node \in TraceNodes /\ det_time[k].inj_node \in InjSet

C7_Witness ==
    /\ pc = "detected"
    /\ SomePairUndetected
    /\ SomePairDetected
    /\ Len(det_time) = Len(NodeOrder) * Len(InjCols)

\* C8 as stated: a detection time above the largest time of trace is looked up at
\* the largest time (and yields the scenario's volume of the last timestep); any
\* other detection time is looked up unchanged.
C8_LookedUpUnchanged ==
    [][(pc = "detected" /\ pc' \in {"done", "key_error"}) =>
        \A k \in 1..Len(det_time) :
            /\ idxs'[k].time =
                 IF det_time[k].time > LastTime THEN LastTime ELSE det_time[k].time
            /\ (pc' = "done" /\ det_time[k].time > LastTime)
                    => volume'[k].volume = LabelVolume(LastTime, det_time[k].inj_node)]_vars

\* C8 amended: a detection time above the largest time of trace is looked up at the
\* largest time (and yields the scenario's volume of the last timestep); any other
\* detection time is looked up at its integer part, which is the time itself when
\* it is a whole number.
C8_ClampAfterTruncation ==
    [][(pc = "detected" /\ pc' \in {"done", "key_error"}) =>
        \A k \in 1..Len(det_time) :
            /\ idxs'[k].time =
                 IF det_time[k].time > LastTime THEN LastTime ELSE IntPart(det_time[k].time)
            /\ idxs'[k].inj_node = det_time[k].inj_node
            /\ (pc' = "done" /\ det_time[k].time > LastTime)
                    => volume'[k].volume = LabelVolume(LastTime, det_time[k].inj_node)]_vars

C8_Witness ==
    /\ pc = "done"
    /\ ~non_detection_value.nan
    /\ non_detection_value.v > LastTime + Resolution
    /\ \E j, k \in 1..Len(det_time) :
        /\ det_time[j].time > LastTime /\ idxs[j].time = LastTime
        /\ volume[j].volume = LabelVolume(LastTime, det_time[j].inj_node)
        /\ det_time[k].time < LastTime /\ idxs[k].time = det_time[k].time

\* C9 as stated: with the default non_detection_value every looked-up key exists
\* and the call completes; a caller-supplied value that is not greater than the
\* largest time and is not a time of trace makes the lookup fail (some pair being
\* never detected).
C9_SuppliedValueNotATimeFails ==
    /\ pc = "key_error" => ~non_detection_value.nan
    /\ (pc = "done" /\ non_detection_value.nan) =>
            \A k \in 1..Len(idxs) : idxs[k].time \in TraceTimes
    /\ ( /\ pc \in {"done", "key_error"}
         /\ ~non_detection_value.nan
         /\ non_detection_value.v <= LastTime
         /\ non_detection_value.v \notin TraceTimes
         /\ SomePairUndetected ) => pc = "key_error"

\* C9 amended: with the default non_detection_value every looked-up key exists and
\* the call completes; a caller-supplied value whose integer part is not greater
\* than the largest time and is not a time of trace makes the lookup fail (some
\* pair being never detected).
C9_LookupCompletes ==
    /\ pc = "key_error" => ~non_detection_value.nan
    /\ (pc = "done" /\ non_detection_value.nan) =>
            \A k \in 1..Len(idxs) : idxs[k].time \in TraceTimes
    /\ ( /\ pc \in {"done", "key_error"}
         /\ ~non_detection_value.nan
         /\ IntPart(non_detection_value.v) <= LastTime
         /\ IntPart(non_detection_value.v) \notin TraceTimes
         /\ SomePairUndetected ) => pc = "key_error"

C9_Witness ==
    /\ pc = "done"
    /\ non_detection_value.nan
    /\ SomePairDetected
    /\ \E k \in 1..Len(det_time) :
        /\ Exceeding(det_time[k].node, det_time[k].inj_node) = {}
        /\ det_time[k].time = LastTime + (LastTime - StepBeforeLast)
        /\ idxs[k].time = LastTime

\* C10: detection_time leaves trace unchanged; contaminated_volume leaves trace and
\* demand unchanged and changes of the caller's det_time only the time column, each
\* value replaced by its integer part: whole values stay, a value beyond the
\* horizon is not clamped, and the node and inj_node columns and the row order stay.
C10_FrameEffects ==
    [][ /\ (pc = "start" /\ pc' # "start") => (trace' = trace /\ demand' = demand)
        /\ (pc = "detected" /\ pc' # "detected") =>
            /\ trace' = trace
            /\ demand' = demand
            /\ Len(det_time') = Len(det_time)
            /\ \A k \in 1..Len(det_time) :
                /\ det_time'[k].node = det_time[k].node
                /\ det_time'[k].inj_node = det_time[k].inj_node
                /\ det_time'[k].time = IntPart(det_time[k].time) ]_vars

C10_Witness ==
    /\ pc = "done"
    /\ ~non_detection_value.nan
    /\ IntPart(non_detection_value.v) # non_detection_value.v
    /\ \E k \in 1..Len(det_time) :
        /\ det_time[k].time = IntPart(non_detection_value.v)
        /\ det_time[k].time > LastTime
        /\ idxs[k].time = LastTime

====
